---- MODULE Spec2Model ----
(***************************************************************************)
(* Model of storybook-rs: the Story derive macro (crates/storybook-derive) *)
(* and the runtime registries and render dispatcher (crates/storybook).    *)
(*                                                                         *)
(* Two specifications share the module:                                    *)
(*   SpecDerive  the per-field inference of derive_story: Init draws one   *)
(*               field (declared type and extracted story attributes) and  *)
(*               DeriveField applies the macro's closures to it;           *)
(*   Spec        the runtime: STORY_REGISTRY, ENUM_REGISTRY and the calls  *)
(*               register_story, register_all_stories, init_enums,         *)
(*               register_enum_options, get_enum_options, get_stories,     *)
(*               args and render_story.                                    *)
(*                                                                         *)
(* Encodings.  Option<T>: None is <<>>, Some(x) is <<x>>.  Rust type names *)
(* are the strings quote!(#ty).to_string() yields ("Option < bool >").     *)
(* JavaScript values are tuples <<"string", s>>, <<"number", n>>,          *)
(* <<"boolean", b>>, <<"null">>; undefined is the absence of the key.      *)
(* Rust values are tuples <<"String", s>>, <<"bool", b>>, <<"num", ty, n>>,*)
(* <<"enum", ty, variant>>, <<"None">>, <<"Some">> \o x, <<"opaque", ty>>. *)
(* Numbers and booleans are carried as their decimal / literal text.       *)
(***************************************************************************)
EXTENDS Naturals, Sequences, FiniteSets, TLC

VARIABLES
    field,           \* SpecDerive: the field under derivation
    derived,         \* SpecDerive: None, or Some(output of the field closures)
    STORY_REGISTRY,  \* Vec<StoryRegistration>, each entry named by its type T
    story_lock,      \* state of the Mutex around STORY_REGISTRY
    ENUM_REGISTRY,   \* HashMap<String, Vec<String>>
    enum_calls,      \* history: type name -> options of the last register call
    ret,             \* the last call and what it returned
    attrs,           \* SpecAttrs: the attributes written on the field
    extracted,       \* SpecAttrs: None, or Some(result of get_story_attrs)
    lorem_arg,       \* SpecLorem: the requested word count
    lorem_out,       \* SpecLorem: the texts returned so far
    build,           \* SpecBuild: output directory, artifacts and expansions
    loader,          \* SpecStartup: how far each artifact module has been evaluated
    rendering        \* SpecRender: the render function in progress, if any

vars == <<field, derived, STORY_REGISTRY, story_lock, ENUM_REGISTRY, enum_calls, ret,
          attrs, extracted, lorem_arg, lorem_out, build, loader, rendering>>

derive_vars == <<field, derived>>
runtime_vars == <<STORY_REGISTRY, story_lock, ENUM_REGISTRY, enum_calls, ret>>
attr_vars == <<attrs, extracted>>
lorem_vars == <<lorem_arg, lorem_out>>
host_vars == <<loader, rendering>>

None == <<>>
Some(x) == <<x>>
IsSome(o) == o # <<>>
Unwrap(o) == o[1]

-----------------------------------------------------------------------------
(* str helpers: contains, starts_with, replace(" ", ""), join *)

Contains(s, sub) ==
    \E i \in 1..(Len(s) + 1 - Len(sub)) : SubSeq(s, i, i + Len(sub) - 1) = sub

StartsWith(s, prefix) ==
    Len(s) >= Len(prefix) /\ SubSeq(s, 1, Len(prefix)) = prefix

RECURSIVE RemoveSpaces(_)
RemoveSpaces(s) ==
    IF Len(s) = 0 THEN ""
    ELSE IF SubSeq(s, 1, 1) = " " THEN RemoveSpaces(SubSeq(s, 2, Len(s)))
    ELSE SubSeq(s, 1, 1) \o RemoveSpaces(SubSeq(s, 2, Len(s)))

\* [String]::join(sep), computed by halves to keep the recursion shallow
RECURSIVE Join(_, _)
Join(words, sep) ==
    IF Len(words) = 0 THEN ""
    ELSE IF Len(words) = 1 THEN words[1]
    ELSE LET half == Len(words) \div 2
         IN  Join(SubSeq(words, 1, half), sep) \o sep
                \o Join(SubSeq(words, half + 1, Len(words)), sep)

-----------------------------------------------------------------------------
(* generate_lorem_ipsum *)

LOREM_WORDS == <<
    "lorem", "ipsum", "dolor", "sit", "amet", "consectetur", "adipiscing", "elit",
    "sed", "do", "eiusmod", "tempor", "incididunt", "ut", "labore", "et",
    "dolore", "magna", "aliqua", "enim", "ad", "minim", "veniam", "quis",
    "nostrud", "exercitation", "ullamco", "laboris", "nisi", "aliquip", "ex", "ea",
    "commodo", "consequat", "duis", "aute", "irure", "in", "reprehenderit", "voluptate",
    "velit", "esse", "cillum", "fugiat", "nulla", "pariatur", "excepteur", "sint",
    "occaecat", "cupidatat", "non", "proident", "sunt", "culpa", "qui", "officia",
    "deserunt", "mollit", "anim", "id", "est", "laborum", "pellentesque", "habitant",
    "morbi", "tristique", "senectus", "netus", "et", "malesuada", "fames", "ac",
    "turpis", "egestas", "vestibulum", "tortor", "quam", "feugiat", "vitae", "ultricies",
    "legimus", "typi", "qui", "nusquam", "vici", "sunt", "signa", "consuetudium" >>

\* generate_lorem_ipsum that repeats the last word instead of wrapping around
generate_lorem_ipsum_NoWrap(word_count) ==
    Join([k \in 1..word_count |->
            LOREM_WORDS[IF k <= Len(LOREM_WORDS) THEN k ELSE Len(LOREM_WORDS)]], " ")

\* for i in 0..word_count { words.push(LOREM_WORDS[i % LOREM_WORDS.len()]) }; words.join(" ")
generate_lorem_ipsum(word_count) ==
    Join([k \in 1..word_count |-> LOREM_WORDS[((k - 1) % Len(LOREM_WORDS)) + 1]], " ")

-----------------------------------------------------------------------------
(* derive_story: the closures applied to one field.  A field is a record   *)
(* [name, ty, control, default, from, lorem]: its identifier, the string   *)
(* of its declared type, and the four results of get_story_attrs.          *)

NumericTokens == <<"i32", "f32", "u32", "f64", "usize">>

\* ty.contains("i32") || ty.contains("f32") || ty.contains("u32") || ...
ContainsNumeric(ty) == \E k \in 1..Len(NumericTokens) : Contains(ty, NumericTokens[k])

\* is_option that accepts the word Option anywhere in the type
is_option_Contains(f) == Contains(f.ty, "Option") /\ Contains(f.ty, "<")

\* let is_option = ty_string.starts_with("Option <");
is_option(f) == StartsWith(f.ty, "Option <")

\* let should_be_optional = control_type.as_ref().map(|c| c == "select").unwrap_or(false);
should_be_optional(f) == IsSome(f.control) /\ Unwrap(f.control) = "select"

\* ArgControl with the numeric tokens tested before the boolean token
ArgControl_NumericFirst(f) ==
    IF IsSome(f.control)
    THEN CASE Unwrap(f.control) = "color" -> "Color"
           [] Unwrap(f.control) = "select" -> "Select"
           [] OTHER -> "Text"
    ELSE LET ty_to_check == IF IsSome(f.from) THEN Unwrap(f.from) ELSE f.ty
         IN  IF ContainsNumeric(ty_to_check) THEN "Number"
             ELSE IF Contains(ty_to_check, "bool") THEN "Boolean"
             ELSE "Text"

\* ArgControl with "boolean" and "number" added to the override table
ArgControl_ExtendedTable(f) ==
    IF IsSome(f.control)
    THEN CASE Unwrap(f.control) = "color" -> "Color"
           [] Unwrap(f.control) = "select" -> "Select"
           [] Unwrap(f.control) = "boolean" -> "Boolean"
           [] Unwrap(f.control) = "number" -> "Number"
           [] OTHER -> "Text"
    ELSE LET ty_to_check == IF IsSome(f.from) THEN Unwrap(f.from) ELSE f.ty
         IN  IF Contains(ty_to_check, "bool") THEN "Boolean"
             ELSE IF ContainsNumeric(ty_to_check) THEN "Number"
             ELSE "Text"

\* ArgControl that always inspects the declared type
ArgControl_IgnoresFrom(f) ==
    IF IsSome(f.control)
    THEN CASE Unwrap(f.control) = "color" -> "Color"
           [] Unwrap(f.control) = "select" -> "Select"
           [] OTHER -> "Text"
    ELSE IF Contains(f.ty, "bool") THEN "Boolean"
         ELSE IF ContainsNumeric(f.ty) THEN "Number"
         ELSE "Text"

\* the `control` token stream of the runtime ArgType
ArgControl(f) ==
    IF IsSome(f.control)
    THEN CASE Unwrap(f.control) = "color" -> "Color"
           [] Unwrap(f.control) = "select" -> "Select"
           [] OTHER -> "Text"
    ELSE LET ty_to_check == IF IsSome(f.from) THEN Unwrap(f.from) ELSE f.ty
         IN  IF Contains(ty_to_check, "bool") THEN "Boolean"
             ELSE IF ContainsNumeric(ty_to_check) THEN "Number"
             ELSE "Text"

\* ArgOptions that never emits the StorySelect::options() call
ArgOptions_Never(f) == None

\* the `options` token stream of the runtime ArgType: None, or the call
\* Some(<#field_ty as storybook::StorySelect>::options()), kept symbolic here
ArgOptions(f) ==
    IF should_be_optional(f) THEN Some(<<"StorySelect::options", f.ty>>) ELSE None

\* options_json handed to generate_storybook_js
OptionsJson(f) ==
    IF should_be_optional(f)
    THEN "get_enum_options('" \o RemoveSpaces(f.ty) \o "')"
    ELSE ""

\* default_value_quoted: the default_value of the runtime ArgType
DefaultValueQuoted(f) ==
    IF IsSome(f.default) THEN Some(Unwrap(f.default))
    ELSE IF IsSome(f.lorem) THEN Some(generate_lorem_ipsum(Unwrap(f.lorem)))
    ELSE None

\* control_str: the control kind written to the artifact
ControlStr(f) ==
    IF IsSome(f.control)
    THEN CASE Unwrap(f.control) = "color" -> "color"
           [] Unwrap(f.control) = "select" -> "select"
           [] OTHER -> "text"
    ELSE IF Contains(f.ty, "bool") THEN "boolean"
         ELSE IF ContainsNumeric(f.ty) THEN "number"
         ELSE "text"

\* DefaultValStr with the select test placed after the type tests
DefaultValStr_SelectLast(f) ==
    IF IsSome(f.default) THEN Unwrap(f.default)
    ELSE IF IsSome(f.lorem) THEN "'" \o generate_lorem_ipsum(Unwrap(f.lorem)) \o "'"
    ELSE IF Contains(f.ty, "String") THEN "''"
    ELSE IF Contains(f.ty, "bool") THEN "false"
    ELSE IF ContainsNumeric(f.ty) THEN "0"
    ELSE IF ControlStr(f) = "select" THEN "null"
    ELSE "undefined"

\* default_val_str: the default written to the artifact's Default.args
DefaultValStr(f) ==
    IF IsSome(f.default) THEN Unwrap(f.default)
    ELSE IF IsSome(f.lorem) THEN "'" \o generate_lorem_ipsum(Unwrap(f.lorem)) \o "'"
    ELSE IF ControlStr(f) = "select" THEN "null"
    ELSE IF Contains(f.ty, "String") THEN "''"
    ELSE IF Contains(f.ty, "bool") THEN "false"
    ELSE IF ContainsNumeric(f.ty) THEN "0"
    ELSE "undefined"

\* the tuple pushed to arg_types_for_js
ArgTypeForJs(f) ==
    [ field_name |-> f.name,
      control |-> ControlStr(f),
      default_val |-> DefaultValStr(f),
      required |-> IF is_option(f) THEN "false" ELSE "true",
      options_json |-> OptionsJson(f) ]

\* generate_storybook_js: one element of arg_types_json, the argTypes entry
\* of the artifact, built from a tuple of arg_types_for_js
ArgTypesJsonEntry(js) ==
    LET options_str == IF js.options_json # ""
                       THEN ", options: " \o js.options_json
                       ELSE ""
        required_str == IF js.required = "true"
                        THEN ", table: { category: 'required' }"
                        ELSE ""
    IN  "    " \o js.field_name \o ": {\n      control: '" \o js.control
            \o "',\n      description: '" \o js.field_name \o "'"
            \o options_str \o required_str \o "\n    }"

\* generate_storybook_js: one element of default_args, a line of Default.args
DefaultArgsLine(js) == "  " \o js.field_name \o ": " \o js.default_val

\* the storybook::ArgType { .. } expression emitted for the field
ArgTypeQuoted(f) ==
    [ name |-> f.name,
      default_value |-> DefaultValueQuoted(f),
      control |-> ArgControl(f),
      required |-> ~is_option(f),
      options |-> ArgOptions(f) ]

\* StoryArgsField without the #[serde(default)] attribute
StoryArgsField_NoSerdeDefault(f) ==
    LET inner == IF IsSome(f.from) THEN Unwrap(f.from) ELSE f.ty
    IN  [ name |-> f.name,
          serde_default |-> FALSE,
          ty |-> IF should_be_optional(f) THEN "Option < " \o inner \o " >" ELSE inner ]

\* story_args_fields: the field of the generated <Name>StoryArgs struct,
\* always #[serde(default)]
StoryArgsField(f) ==
    LET inner == IF IsSome(f.from) THEN Unwrap(f.from) ELSE f.ty
    IN  [ name |-> f.name,
          serde_default |-> TRUE,
          ty |-> IF should_be_optional(f) THEN "Option < " \o inner \o " >" ELSE inner ]

-----------------------------------------------------------------------------
(* SpecDerive: one field drawn from bounded sets, then derived *)

MaxLoremCount == 2
LoremDefault == 8

FieldTypes ==
    { "String", "bool", "i32", "f32", "u32", "f64", "usize", "i64",
      "Option < bool >", "Option < String >", "ButtonSize",
      "(bool , i32)", "(String , bool)", "Vec < u32 >", "Vec < Option < bool > >",
      "crate :: ButtonSize" }

ControlOverrides == { None, Some("color"), Some("select"), Some("boolean"), Some("number") }
DefaultLiterals == { None, Some("'#007bff'"), Some("0") }
FromTypes == { None, Some("i32"), Some("String"), Some("bool") }
LoremCounts == { None } \cup { Some(n) : n \in (0..MaxLoremCount) \cup { LoremDefault } }

Fields ==
    [ name : { "f" }, ty : FieldTypes, control : ControlOverrides,
      default : DefaultLiterals, from : FromTypes, lorem : LoremCounts ]

DeriveField ==
    /\ derived = None
    /\ derived' = Some([ arg_type |-> ArgTypeQuoted(field),
                         js |-> ArgTypeForJs(field),
                         js_entry |-> ArgTypesJsonEntry(ArgTypeForJs(field)),
                         story_args |-> StoryArgsField(field) ])
    /\ UNCHANGED <<field, STORY_REGISTRY, story_lock, ENUM_REGISTRY, enum_calls, ret>> /\ UNCHANGED <<attr_vars, lorem_vars, build, host_vars>>

NextDerive == DeriveField

-----------------------------------------------------------------------------
(* The declarations the runtime specification is built from.               *)
(* ButtonSize, AlertType and Button are the example crate's; Widget is the *)
(* end-to-end component of the specification's section 8 (count, color,    *)
(* size), declared over the example's 3-variant ButtonSize.                *)

\* StorySelect enums: variants in declaration order, and the variant their
\* Default impl returns
EnumDecls ==
    [ ButtonSize |-> [ variants |-> <<"Small", "Medium", "Large">>, default |-> "Medium" ],
      AlertType  |-> [ variants |-> <<"Info", "Success", "Warning", "Error">>, default |-> "Info" ] ]

Button ==
    << [ name |-> "label", ty |-> "String", control |-> None,
         default |-> Some("'Click Me!'"), from |-> None, lorem |-> None ],
       [ name |-> "color", ty |-> "String", control |-> Some("color"),
         default |-> Some("'#007bff'"), from |-> None, lorem |-> None ],
       [ name |-> "disabled", ty |-> "Option < bool >", control |-> None,
         default |-> None, from |-> None, lorem |-> None ] >>

Widget ==
    << [ name |-> "count", ty |-> "f64", control |-> None,
         default |-> Some("0"), from |-> Some("i32"), lorem |-> None ],
       [ name |-> "color", ty |-> "String", control |-> Some("color"),
         default |-> Some("'#007bff'"), from |-> None, lorem |-> None ],
       [ name |-> "size", ty |-> "ButtonSize", control |-> Some("select"),
         default |-> None, from |-> None, lorem |-> None ] >>

StoryDecls == [ Button |-> Button, Widget |-> Widget ]

\* register_stories!(Button, Widget) and register_enums!(AlertType, ButtonSize)
RegisteredTypes == <<"Button", "Widget">>
RegisteredEnums == <<"AlertType", "ButtonSize">>

FieldNames(T) == { StoryDecls[T][i].name : i \in 1..Len(StoryDecls[T]) }
FieldOf(T, n) == CHOOSE f \in { StoryDecls[T][i] : i \in 1..Len(StoryDecls[T]) } : f.name = n

-----------------------------------------------------------------------------
(* What the derived code does at run time *)

\* <E as StorySelect>::options(): the variant names in declaration order
StorySelectOptions(E) == EnumDecls[E].variants

\* evaluation of one storybook::ArgType { .. } expression inside args()
EvalArgType(q) ==
    [ name |-> q.name,
      default_value |-> q.default_value,
      control |-> q.control,
      required |-> q.required,
      options |-> IF IsSome(q.options) THEN Some(StorySelectOptions(Unwrap(q.options)[2])) ELSE None ]

\* <T as StoryMeta>::args()
StoryMetaArgs(T) == [ i \in 1..Len(StoryDecls[T]) |-> EvalArgType(ArgTypeQuoted(StoryDecls[T][i])) ]

IsOptionTy(ty) == StartsWith(ty, "Option < ")
OptionInner(ty) == SubSeq(ty, 10, Len(ty) - 2)
NumericTypes == { "i32", "u32", "f32", "f64", "usize", "i64" }

\* Default::default() of a Rust type
DefaultOf(ty) ==
    CASE IsOptionTy(ty) -> <<"None">>
      [] ty = "String" -> <<"String", "">>
      [] ty = "bool" -> <<"bool", "false">>
      [] ty \in NumericTypes -> <<"num", ty, "0">>
      [] ty \in DOMAIN EnumDecls -> <<"enum", ty, EnumDecls[ty].default>>
      [] OTHER -> <<"opaque", ty>>

Ok(v) == [ ok |-> TRUE, v |-> v ]
Err == [ ok |-> FALSE, v |-> <<>> ]

\* serde_wasm_bindgen deserialization of one present JavaScript value into
\* a Rust type: a value of the wrong shape is an error
RECURSIVE DeserializeValue(_, _)
DeserializeValue(ty, js) ==
    CASE IsOptionTy(ty) ->
            IF js = <<"null">> THEN Ok(<<"None">>)
            ELSE LET r == DeserializeValue(OptionInner(ty), js)
                 IN  IF r.ok THEN Ok(<<"Some">> \o r.v) ELSE Err
      [] ty = "String" -> IF js[1] = "string" THEN Ok(<<"String", js[2]>>) ELSE Err
      [] ty = "bool" -> IF js[1] = "boolean" THEN Ok(<<"bool", js[2]>>) ELSE Err
      [] ty \in NumericTypes -> IF js[1] = "number" THEN Ok(<<"num", ty, js[2]>>) ELSE Err
      [] ty \in DOMAIN EnumDecls ->
            IF js[1] = "string" /\ \E k \in 1..Len(EnumDecls[ty].variants) : EnumDecls[ty].variants[k] = js[2]
            THEN Ok(<<"enum", ty, js[2]>>) ELSE Err
      [] OTHER -> Err

\* one #[serde(default)] field of the StoryArgs struct: an unknown payload
\* key is never looked at, a missing (undefined) key takes Default::default();
\* without the attribute serde accepts a missing key for an Option only
DeserializeField(sf, payload) ==
    IF sf.name \in DOMAIN payload
    THEN DeserializeValue(sf.ty, payload[sf.name])
    ELSE IF sf.serde_default \/ IsOptionTy(sf.ty) THEN Ok(DefaultOf(sf.ty)) ELSE Err

\* value.into(): the From conversion between the StoryArgs type and the field type
Into(to_ty, v) == IF v[1] = "num" THEN <<"num", to_ty, v[3]>> ELSE v

\* from_impl_fields: value.f.unwrap_or_default() for a select field, value.f.into() otherwise
FromImplField(f, v) ==
    IF should_be_optional(f)
    THEN IF v = <<"None">>
         THEN DefaultOf(IF IsSome(f.from) THEN Unwrap(f.from) ELSE f.ty)
         ELSE Tail(v)
    ELSE Into(f.ty, v)

\* the render_fn closure of register_story::<T> up to story.to_story():
\* from_value(args).unwrap() panics on a deserialization error; otherwise
\* the argument object handed to to_story() is component.into()
RenderFn(T, payload) ==
    LET des == [ n \in FieldNames(T) |-> DeserializeField(StoryArgsField(FieldOf(T, n)), payload) ]
    IN  IF \E n \in FieldNames(T) : ~des[n].ok
        THEN [ panicked |-> TRUE, args |-> <<>> ]
        ELSE [ panicked |-> FALSE,
               args |-> [ n \in FieldNames(T) |-> FromImplField(FieldOf(T, n), des[n].v) ] ]

\* serde rename_all = "lowercase" of ControlType
ControlJson(c) ==
    CASE c = "Text" -> "text" [] c = "Select" -> "select" [] c = "Color" -> "color"
      [] c = "Boolean" -> "boolean" [] c = "Number" -> "number"

\* StoryDef that lists a default for every argument, an empty one where the
\* argument has none
StoryDef_DefaultsForAll(T) ==
    LET args == StoryMetaArgs(T)
        names == { args[i].name : i \in 1..Len(args) }
        at(n) == CHOOSE a \in { args[i] : i \in 1..Len(args) } : a.name = n
    IN  [ name |-> T,
          argTypes |-> [ n \in names |->
                           [ name |-> n,
                             control |-> ControlJson(at(n).control),
                             table |-> IF at(n).required THEN "required" ELSE "optional" ] ],
          args |-> [ n \in names |->
                       IF IsSome(at(n).default_value) THEN Unwrap(at(n).default_value) ELSE "" ] ]

\* the body of get_stories' map closure for one registration
StoryDef(T) ==
    LET args == StoryMetaArgs(T)
        names == { args[i].name : i \in 1..Len(args) }
        at(n) == CHOOSE a \in { args[i] : i \in 1..Len(args) } : a.name = n
    IN  [ name |-> T,
          argTypes |-> [ n \in names |->
                           [ name |-> n,
                             control |-> ControlJson(at(n).control),
                             table |-> IF at(n).required THEN "required" ELSE "optional" ] ],
          args |-> [ n \in { m \in names : IsSome(at(m).default_value) } |->
                       Unwrap(at(n).default_value) ] ]

\* EnumInsert that drops every other entry
EnumInsert_Clears(m, k, v) == [ x \in { k } |-> v ]

\* EnumInsert that extends the list already stored under the key
EnumInsert_Appends(m, k, v) ==
    [ x \in DOMAIN m \cup { k } |->
        IF x = k THEN (IF k \in DOMAIN m THEN m[k] \o v ELSE v) ELSE m[x] ]

\* HashMap::insert / HashMap::get on ENUM_REGISTRY
EnumInsert(m, k, v) == [ x \in DOMAIN m \cup { k } |-> IF x = k THEN v ELSE m[x] ]
EnumGet(m, k) == IF k \in DOMAIN m THEN Some(m[k]) ELSE None

\* FirstMatch that takes the latest registration of the name
FirstMatch_Last(reg, name) ==
    CHOOSE i \in 1..Len(reg) : reg[i] = name /\ \A j \in (i + 1)..Len(reg) : reg[j] # name

\* the position .iter().find(|meta| meta.name == name) stops at: iteration runs
\* from the front of the Vec
FirstMatch(reg, name) ==
    CHOOSE i \in 1..Len(reg) : reg[i] = name /\ \A j \in 1..(i - 1) : reg[j] # name

\* .iter().find(|meta| meta.name == name): the first registration of that name
FindStory(reg, name) ==
    IF \E i \in 1..Len(reg) : reg[i] = name
    THEN Some(reg[FirstMatch(reg, name)])
    ELSE None

-----------------------------------------------------------------------------
(* Spec: the runtime calls.  The host is a browser main thread, where      *)
(* window and document exist.                                              *)

MaxStories == 4

\* runtime calls one to_story() makes
MaxNested == 2

StoryNames == { "Button", "Widget", "Foo" }
EnumNames == { "AlertType", "ButtonSize", "Missing" }
OptionLists == { EnumDecls[E].variants : E \in DOMAIN EnumDecls }

EmptyObject == <<>>
Payloads ==
    { EmptyObject,
      [ label |-> <<"string", "Hi">> ],
      [ label |-> <<"number", "5">> ],
      [ disabled |-> <<"boolean", "true">> ],
      [ disabled |-> <<"null">> ],
      [ count |-> <<"number", "5">> ],
      [ count |-> <<"string", "many">> ],
      [ color |-> <<"string", "red">> ],
      [ size |-> <<"string", "Large">> ],
      [ size |-> <<"null">> ],
      [ size |-> <<"string", "Huge">> ],
      [ extra |-> <<"number", "1">> ],
      [ count |-> <<"number", "5">>, color |-> <<"string", "red">>, extra |-> <<"null">> ] }

Call(op, name, payload, outcome, invoked, value) ==
    [ op |-> op, name |-> name, payload |-> payload, outcome |-> outcome,
      invoked |-> invoked, value |-> value ]

\* Mutex::lock().unwrap() on STORY_REGISTRY succeeds only on a free, unpoisoned lock
LockFails == story_lock # "free"

\* a panic while the guard is alive: the guard is never dropped (panic = abort,
\* the wasm default) or is dropped during unwinding, which poisons the Mutex
LockAfterPanic == { "held", "poisoned" }

\* register_story::<T>()
register_story(T) ==
    /\ Len(STORY_REGISTRY) < MaxStories
    /\ IF LockFails
       THEN /\ ret' = Call("register_story", T, EmptyObject, "panic", None, <<>>)
            /\ UNCHANGED STORY_REGISTRY
       ELSE /\ STORY_REGISTRY' = Append(STORY_REGISTRY, T)
            /\ ret' = Call("register_story", T, EmptyObject, "Ok", None, <<>>)
    /\ UNCHANGED <<field, derived, story_lock, ENUM_REGISTRY, enum_calls>> /\ UNCHANGED <<attr_vars, lorem_vars, build, host_vars>>

\* register_all_stories(): register_story::<T>() for each listed type, in order
register_all_stories ==
    /\ Len(STORY_REGISTRY) + Len(RegisteredTypes) <= MaxStories
    /\ IF LockFails
       THEN /\ ret' = Call("register_all_stories", "", EmptyObject, "panic", None, <<>>)
            /\ UNCHANGED STORY_REGISTRY
       ELSE /\ STORY_REGISTRY' = STORY_REGISTRY \o RegisteredTypes
            /\ ret' = Call("register_all_stories", "", EmptyObject, "Ok", None, <<>>)
    /\ UNCHANGED <<field, derived, story_lock, ENUM_REGISTRY, enum_calls>> /\ UNCHANGED <<attr_vars, lorem_vars, build, host_vars>>

\* register_enum_options(type_name, options)
register_enum_options(type_name, options) ==
    /\ ENUM_REGISTRY' = EnumInsert(ENUM_REGISTRY, type_name, options)
    /\ enum_calls' = [ x \in DOMAIN enum_calls \cup { type_name } |->
                         IF x = type_name THEN options ELSE enum_calls[x] ]
    \* HashMap::insert hands back the list it replaced; the caller drops it
    /\ ret' = Call("register_enum_options", type_name, EmptyObject, "Ok", None, options)
                 @@ [ replaced |-> EnumGet(ENUM_REGISTRY, type_name) ]
    /\ UNCHANGED <<field, derived, STORY_REGISTRY, story_lock>> /\ UNCHANGED <<attr_vars, lorem_vars, build, host_vars>>

\* E::__register_enum_options(): register_enum_options(name_str, options())
\* where name_str is the identifier of the enum
__register_enum_options(m, E) == EnumInsert(m, E, StorySelectOptions(E))

\* init_enums(): E::__register_enum_options() for each listed enum, in order
RECURSIVE InsertAll(_, _)
InsertAll(m, enums) ==
    IF Len(enums) = 0 THEN m
    ELSE InsertAll(EnumInsert(m, enums[1], StorySelectOptions(enums[1])), Tail(enums))

init_enums ==
    /\ ENUM_REGISTRY' = InsertAll(ENUM_REGISTRY, RegisteredEnums)
    /\ enum_calls' = [ x \in DOMAIN enum_calls \cup { RegisteredEnums[i] : i \in 1..Len(RegisteredEnums) } |->
                         IF \E i \in 1..Len(RegisteredEnums) : RegisteredEnums[i] = x
                         THEN EnumDecls[x].variants ELSE enum_calls[x] ]
    /\ ret' = Call("init_enums", "", EmptyObject, "Ok", None, <<>>)
    /\ UNCHANGED <<field, derived, STORY_REGISTRY, story_lock>> /\ UNCHANGED <<attr_vars, lorem_vars, build, host_vars>>

RECURSIVE Reverse(_)
Reverse(q) == IF Len(q) = 0 THEN <<>> ELSE Append(Reverse(Tail(q)), Head(q))

\* EnumOptionsValue returning the stored options in reverse order
EnumOptionsValue_Reversed(m, type_name) ==
    IF IsSome(EnumGet(m, type_name)) THEN <<"array", Reverse(Unwrap(EnumGet(m, type_name)))>> ELSE <<"null">>

\* the JsValue get_enum_options returns: to_value(options) or JsValue::NULL
EnumOptionsValue(m, type_name) ==
    IF IsSome(EnumGet(m, type_name)) THEN <<"array", Unwrap(EnumGet(m, type_name))>> ELSE <<"null">>

get_enum_options(type_name) ==
    /\ ret' = Call("get_enum_options", type_name, EmptyObject, "Ok", None,
                   EnumOptionsValue(ENUM_REGISTRY, type_name))
    /\ UNCHANGED <<field, derived, STORY_REGISTRY, story_lock, ENUM_REGISTRY, enum_calls>> /\ UNCHANGED <<attr_vars, lorem_vars, build, host_vars>>

\* the array get_stories returns on an acquired lock
StoryDefOf == [ T \in DOMAIN StoryDecls |-> StoryDef(T) ]
StoryDefs(reg) == [ i \in 1..Len(reg) |-> StoryDefOf[reg[i]] ]

get_stories ==
    /\ IF LockFails
       THEN ret' = Call("get_stories", "", EmptyObject, "panic", None, <<>>)
       ELSE ret' = Call("get_stories", "", EmptyObject, "Ok", None, StoryDefs(STORY_REGISTRY))
    /\ UNCHANGED <<field, derived, STORY_REGISTRY, story_lock, ENUM_REGISTRY, enum_calls>> /\ UNCHANGED <<attr_vars, lorem_vars, build, host_vars>>

\* <T as StoryMeta>::args(), the schema accessor
args(T) ==
    /\ ret' = Call("args", T, EmptyObject, "Ok", None, StoryMetaArgs(T))
    /\ UNCHANGED <<field, derived, STORY_REGISTRY, story_lock, ENUM_REGISTRY, enum_calls>> /\ UNCHANGED <<attr_vars, lorem_vars, build, host_vars>>

\* (meta.render_fn)(args.clone()) for every registered type and payload
RenderResults == [ T \in DOMAIN StoryDecls |-> [ payload \in Payloads |-> RenderFn(T, payload) ] ]

NotFoundMessage(name) == "Story '" \o name \o "' not found"

\* render_story(name, args)
render_story(name, payload) ==
    /\ IF LockFails
       THEN /\ ret' = Call("render_story", name, payload, "panic", None, <<>>)
            /\ UNCHANGED story_lock
       ELSE LET found == FindStory(STORY_REGISTRY, name)
            IN  IF found = None
                THEN /\ ret' = Call("render_story", name, payload, "Err", None, NotFoundMessage(name))
                     /\ UNCHANGED story_lock
                ELSE LET r == RenderResults[Unwrap(found)][payload]
                     IN  IF r.panicked
                         THEN /\ ret' = Call("render_story", name, payload, "panic", found, <<>>)
                              /\ story_lock' \in LockAfterPanic
                         ELSE /\ ret' = Call("render_story", name, payload, "Ok", found,
                                             [ args |-> r.args, node |-> "div",
                                               entry |-> FirstMatch(STORY_REGISTRY, name) ])
                              /\ UNCHANGED story_lock
    /\ UNCHANGED <<field, derived, STORY_REGISTRY, ENUM_REGISTRY, enum_calls>> /\ UNCHANGED <<attr_vars, lorem_vars, build, host_vars>>

\* no build under way
NoBuild == <<>>

\* no artifact module being loaded
NoLoad == <<>>

Init ==
    /\ field = None
    /\ derived = None
    /\ STORY_REGISTRY = <<>>
    /\ story_lock = "free"
    /\ ENUM_REGISTRY = <<>>
    /\ enum_calls = <<>>
    /\ ret = Call("init", "", EmptyObject, "Ok", None, <<>>)
    /\ attrs = <<>>
    /\ extracted = None
    /\ lorem_arg = 0
    /\ lorem_out = <<>>
    /\ build = NoBuild
    /\ loader = NoLoad
    /\ rendering = None

Next ==
    \/ \E T \in DOMAIN StoryDecls : register_story(T)
    \/ register_all_stories
    \/ \E E \in DOMAIN EnumDecls, options \in OptionLists : register_enum_options(E, options)
    \/ init_enums
    \/ \E E \in EnumNames : get_enum_options(E)
    \/ get_stories
    \/ \E T \in DOMAIN StoryDecls : args(T)
    \/ \E name \in StoryNames, payload \in Payloads : render_story(name, payload)

Spec == Init /\ [][Next]_vars

InitDerive ==
    /\ field \in Fields
    /\ derived = None
    /\ STORY_REGISTRY = <<>>
    /\ story_lock = "free"
    /\ ENUM_REGISTRY = <<>>
    /\ enum_calls = <<>>
    /\ ret = Call("init", "", EmptyObject, "Ok", None, <<>>)
    /\ attrs = <<>>
    /\ extracted = None
    /\ lorem_arg = 0
    /\ lorem_out = <<>>
    /\ build = NoBuild
    /\ loader = NoLoad
    /\ rendering = None

SpecDerive == InitDerive /\ [][NextDerive]_vars

-----------------------------------------------------------------------------
(* SpecAttrs: get_story_attrs over the attributes written on one field.    *)
(* An attribute is [path, metas]; a meta is [key, val] where val is None   *)
(* (bare key), <<"str", s>> (key = "s") or <<"int", s>> (key = s, a        *)
(* literal that is not a string).                                          *)

Meta(key, val) == [ key |-> key, val |-> val ]
Attr(path, metas) == [ path |-> path, metas |-> metas ]

\* the type names syn::parse_str::<syn::Type> accepts among the strings drawn
SynTypes == NumericTypes \cup { "String", "bool" } \cup DOMAIN EnumDecls

\* syn::parse_str(&lit_str.value()): the parsed type, or None on a parse error
ParseType(s) == IF s \in SynTypes THEN Some(s) ELSE None

Digits == <<"0", "1", "2", "3", "4", "5", "6", "7", "8", "9">>
IsDigit(c) == \E d \in 1..Len(Digits) : Digits[d] = c
DigitValue(c) == (CHOOSE d \in 1..Len(Digits) : Digits[d] = c) - 1

RECURSIVE DecimalValue(_, _)
DecimalValue(s, acc) ==
    IF s = "" THEN acc
    ELSE DecimalValue(SubSeq(s, 2, Len(s)), 10 * acc + DigitValue(SubSeq(s, 1, 1)))

\* ParseUsize that returns the number of digits
ParseUsize_DigitCount(s) ==
    LET body == IF Len(s) >= 1 /\ SubSeq(s, 1, 1) = "+" THEN SubSeq(s, 2, Len(s)) ELSE s
    IN  IF body # "" /\ \A i \in 1..Len(body) : IsDigit(SubSeq(body, i, i))
        THEN Some(Len(body))
        ELSE None

\* str::parse::<usize>(): an optional '+' and at least one decimal digit
ParseUsize(s) ==
    LET body == IF Len(s) >= 1 /\ SubSeq(s, 1, 1) = "+" THEN SubSeq(s, 2, Len(s)) ELSE s
    IN  IF body # "" /\ \A i \in 1..Len(body) : IsDigit(SubSeq(body, i, i))
        THEN Some(DecimalValue(body, 0))
        ELSE None

IsLitStr(m) == m.val # None /\ m.val[1] = "str"
RecognizedKeys == { "control", "default", "from", "lorem" }

\* the result before any attribute is read; `seen` lists the metas the
\* closure has been called on
NoOverrides ==
    [ control |-> None, default |-> None, from |-> None, lorem |-> None,
      panicked |-> FALSE, seen |-> <<>> ]

\* Logic where an unparseable lorem value falls back to the default count
Logic_LoremFallback(acc, m) ==
    LET a == [ acc EXCEPT !.seen = Append(@, m) ]
    IN  CASE m.key = "control" ->
                IF IsLitStr(m) THEN [ a EXCEPT !.control = Some(m.val[2]) ] ELSE a
          [] m.key = "default" ->
                IF IsLitStr(m) THEN [ a EXCEPT !.default = Some(m.val[2]) ] ELSE a
          [] m.key = "from" ->
                IF IsLitStr(m)
                THEN IF IsSome(ParseType(m.val[2]))
                     THEN [ a EXCEPT !.from = ParseType(m.val[2]) ]
                     ELSE [ a EXCEPT !.panicked = TRUE ]
                ELSE a
          [] m.key = "lorem" ->
                IF IsLitStr(m) /\ IsSome(ParseUsize(m.val[2]))
                THEN [ a EXCEPT !.lorem = ParseUsize(m.val[2]) ]
                ELSE [ a EXCEPT !.lorem = Some(LoremDefault) ]
          [] OTHER -> a

\* the closure handed to parse_nested_meta, called on one meta: meta.value()
\* succeeds when an `=` follows the key, value.parse::<LitStr>() when a string
\* literal follows the `=`; .expect("Invalid type for from") panics
Logic(acc, m) ==
    LET a == [ acc EXCEPT !.seen = Append(@, m) ]
    IN  CASE m.key = "control" ->
                IF IsLitStr(m) THEN [ a EXCEPT !.control = Some(m.val[2]) ] ELSE a
          [] m.key = "default" ->
                IF IsLitStr(m) THEN [ a EXCEPT !.default = Some(m.val[2]) ] ELSE a
          [] m.key = "from" ->
                IF IsLitStr(m)
                THEN IF IsSome(ParseType(m.val[2]))
                     THEN [ a EXCEPT !.from = ParseType(m.val[2]) ]
                     ELSE [ a EXCEPT !.panicked = TRUE ]
                ELSE a
          [] m.key = "lorem" ->
                IF m.val # None
                THEN IF IsLitStr(m) /\ IsSome(ParseUsize(m.val[2]))
                     THEN [ a EXCEPT !.lorem = ParseUsize(m.val[2]) ]
                     ELSE a
                ELSE [ a EXCEPT !.lorem = Some(LoremDefault) ]
          [] OTHER -> a

\* the tokens of the meta the closure has not consumed: the `= value` of a
\* key it does not recognize, or a value that is not a string literal
Unconsumed(m) == m.val # None /\ ~(m.key \in RecognizedKeys /\ IsLitStr(m))

\* attr.parse_nested_meta(logic): after each call of the closure the input
\* must be empty or continue with a comma, otherwise parsing of the
\* attribute stops with an error (which get_story_attrs discards)
RECURSIVE ParseNestedMeta(_, _)
ParseNestedMeta(acc, metas) ==
    IF metas = <<>> THEN acc
    ELSE LET a == Logic(acc, Head(metas))
         IN  IF a.panicked \/ Unconsumed(Head(metas)) THEN a
             ELSE ParseNestedMeta(a, Tail(metas))

RECURSIVE ForEachAttr(_, _)
ForEachAttr(acc, as) ==
    IF as = <<>> \/ acc.panicked THEN acc
    ELSE ForEachAttr(IF Head(as).path = "story"
                     THEN ParseNestedMeta(acc, Head(as).metas)
                     ELSE acc,
                     Tail(as))

\* get_story_attrs(field): the four overrides, or a panic of the derive
get_story_attrs(as) ==
    LET r == ForEachAttr(NoOverrides, as)
    IN  IF r.panicked THEN [ NoOverrides EXCEPT !.panicked = TRUE, !.seen = r.seen ] ELSE r

MaxMetas == 3

MetaSet ==
    { Meta("control", <<"str", "color">>), Meta("control", <<"str", "select">>),
      Meta("control", <<"int", "5">>),
      Meta("default", <<"str", "'x'">>), Meta("default", <<"int", "0">>),
      Meta("from", <<"str", "i32">>), Meta("from", <<"str", "not a type">>),
      Meta("lorem", None), Meta("lorem", <<"str", "12">>), Meta("lorem", <<"str", "abc">>),
      Meta("hidden", None), Meta("label", <<"str", "x">>) }

\* the metas ms written as one or more #[story(..)] attributes: a new
\* attribute starts after each position of cuts
RECURSIVE SplitAt(_, _, _)
SplitAt(ms, cuts, from_pos) ==
    IF from_pos > Len(ms) THEN <<>>
    ELSE LET later == { c \in cuts : c >= from_pos /\ c < Len(ms) }
             stop == IF later = {} THEN Len(ms)
                     ELSE CHOOSE c \in later : \A d \in later : c <= d
         IN  <<Attr("story", SubSeq(ms, from_pos, stop))>> \o SplitAt(ms, cuts, stop + 1)

StoryAttrLists ==
    { SplitAt(ms, cuts, 1) :
        ms \in UNION { [1..n -> MetaSet] : n \in 0..MaxMetas },
        cuts \in SUBSET (1..(MaxMetas - 1)) }

\* a field may also carry attributes of other macros, which are skipped
ForeignAttr == Attr("serde", <<Meta("default", None)>>)

AttrLists ==
    StoryAttrLists \cup { <<ForeignAttr>> \o as : as \in { a \in StoryAttrLists : Len(a) <= 1 } }

GetStoryAttrs ==
    /\ extracted = None
    /\ extracted' = Some(get_story_attrs(attrs))
    /\ UNCHANGED <<attrs, derive_vars, runtime_vars, lorem_vars, build, host_vars>>

NextAttrs == GetStoryAttrs

InitAttrs ==
    /\ attrs \in AttrLists
    /\ extracted = None
    /\ field = None
    /\ derived = None
    /\ STORY_REGISTRY = <<>>
    /\ story_lock = "free"
    /\ ENUM_REGISTRY = <<>>
    /\ enum_calls = <<>>
    /\ ret = Call("init", "", EmptyObject, "Ok", None, <<>>)
    /\ lorem_arg = 0
    /\ lorem_out = <<>>
    /\ build = NoBuild
    /\ loader = NoLoad
    /\ rendering = None

SpecAttrs == InitAttrs /\ [][NextAttrs]_vars

-----------------------------------------------------------------------------
(* SpecLorem: generate_lorem_ipsum called on one word count *)

MaxWords == 90
MaxCalls == 2

GenerateLoremIpsum ==
    /\ Len(lorem_out) < MaxCalls
    /\ lorem_out' = Append(lorem_out, generate_lorem_ipsum(lorem_arg))
    /\ UNCHANGED <<lorem_arg, derive_vars, runtime_vars, attr_vars, build, host_vars>>

NextLorem == GenerateLoremIpsum

InitLorem ==
    /\ lorem_arg \in 0..MaxWords
    /\ lorem_out = <<>>
    /\ field = None
    /\ derived = None
    /\ STORY_REGISTRY = <<>>
    /\ story_lock = "free"
    /\ ENUM_REGISTRY = <<>>
    /\ enum_calls = <<>>
    /\ ret = Call("init", "", EmptyObject, "Ok", None, <<>>)
    /\ attrs = <<>>
    /\ extracted = None
    /\ build = NoBuild
    /\ loader = NoLoad
    /\ rendering = None

SpecLorem == InitLorem /\ [][NextLorem]_vars

-----------------------------------------------------------------------------
(* SpecBuild: one build of the example crate.  derive_story runs once for  *)
(* each of its four components; creating the output directory and writing  *)
(* the artifact may fail.  build.dir tells whether storybook/stories       *)
(* exists, build.files holds the artifacts on disk, build.expanded the     *)
(* token streams returned so far, build.io the result of each I/O call,    *)
(* build.order the components in the order they were derived.              *)

PlainField(name, ty, control) ==
    [ name |-> name, ty |-> ty, control |-> control,
      default |-> None, from |-> None, lorem |-> None ]

Card ==
    << PlainField("title", "String", None), PlainField("content", "String", None),
       PlainField("background", "String", Some("color")) >>

Input == << PlainField("placeholder", "String", None), PlainField("value", "String", None) >>

Alert ==
    << PlainField("message", "String", None),
       PlainField("alert_type", "AlertType", Some("select")) >>

BuildDecls == [ Button |-> Button, Card |-> Card, Input |-> Input, Alert |-> Alert ]

\* js_content: the artifact text, kept as the four holes of the template
JsContent(T) ==
    LET arg_types == [ i \in 1..Len(BuildDecls[T]) |-> ArgTypeForJs(BuildDecls[T][i]) ]
    IN  [ title |-> "Components/" \o T,
          argTypes |-> Join([ i \in 1..Len(arg_types) |-> ArgTypesJsonEntry(arg_types[i]) ], ",\n"),
          story |-> T,
          args |-> Join([ i \in 1..Len(arg_types) |-> DefaultArgsLine(arg_types[i]) ], ",\n") ]

\* what is left of a file whose write failed half way
PartialFile == [ title |-> "", argTypes |-> "", story |-> "", args |-> "" ]

\* the token stream derive_story returns: the StoryArgs struct and args()
Expanded(T) ==
    [ name |-> T,
      story_args |-> [ i \in 1..Len(BuildDecls[T]) |-> StoryArgsField(BuildDecls[T][i]) ],
      arg_types |-> [ i \in 1..Len(BuildDecls[T]) |-> ArgTypeQuoted(BuildDecls[T][i]) ] ]

Put(m, k, v) == [ x \in DOMAIN m \cup { k } |-> IF x = k THEN v ELSE m[x] ]

\* generate_storybook_js that unwraps the results of the two I/O calls
generate_storybook_js_Unwraps(b, T, mkdir, write) ==
    LET dir == b.dir \/ mkdir = "Ok"
    IN  [ dir |-> dir,
          files |-> CASE write = "Ok" -> Put(b.files, T, JsContent(T))
                      [] write = "ErrPartial" -> Put(b.files, T, PartialFile)
                      [] OTHER -> b.files,
          panicked |-> mkdir = "Err" \/ write # "Ok" ]

\* generate_storybook_js: `if let Err(_) = create_dir_all(..) {}` and
\* `let _ = fs::write(..)` drop both results
generate_storybook_js(b, T, mkdir, write) ==
    LET dir == b.dir \/ mkdir = "Ok"
    IN  [ dir |-> dir,
          files |-> CASE write = "Ok" -> Put(b.files, T, JsContent(T))
                      [] write = "ErrPartial" -> Put(b.files, T, PartialFile)
                      [] OTHER -> b.files,
          panicked |-> FALSE ]

\* derive_story on component T; mkdir and write are what the file system
\* answers: an existing directory is never an error, and nothing can be
\* written into a directory that does not exist
derive_story(T, mkdir, write) ==
    /\ build # NoBuild
    /\ ~build.halted
    /\ T \notin DOMAIN build.io
    /\ build.dir => mkdir = "Ok"
    /\ mkdir = "Err" => write = "Err"
    /\ LET g == generate_storybook_js(build, T, mkdir, write)
       IN  build' = [ dir |-> g.dir,
                      files |-> g.files,
                      io |-> Put(build.io, T, [ mkdir |-> mkdir, write |-> write ]),
                      order |-> Append(build.order, T),
                      halted |-> g.panicked,
                      expanded |-> IF g.panicked THEN build.expanded
                                   ELSE Put(build.expanded, T, Expanded(T)) ]
    /\ UNCHANGED <<derive_vars, runtime_vars, attr_vars, lorem_vars, host_vars>>

NextBuild ==
    \E T \in DOMAIN BuildDecls, mkdir \in { "Ok", "Err" }, write \in { "Ok", "Err", "ErrPartial" } :
        derive_story(T, mkdir, write)

InitBuild ==
    /\ build \in { [ dir |-> d, files |-> <<>>, io |-> <<>>, order |-> <<>>,
                     halted |-> FALSE, expanded |-> <<>> ] : d \in BOOLEAN }
    /\ field = None
    /\ derived = None
    /\ STORY_REGISTRY = <<>>
    /\ story_lock = "free"
    /\ ENUM_REGISTRY = <<>>
    /\ enum_calls = <<>>
    /\ ret = Call("init", "", EmptyObject, "Ok", None, <<>>)
    /\ attrs = <<>>
    /\ extracted = None
    /\ lorem_arg = 0
    /\ lorem_out = <<>>
    /\ loader = NoLoad
    /\ rendering = None

SpecBuild == InitBuild /\ [][NextBuild]_vars

-----------------------------------------------------------------------------
(* The option hook of an artifact entry as the preview tool evaluates it *)

HookPrefix == "get_enum_options('"

\* the argument of the call written in options_json
HookKey(options_json) == SubSeq(options_json, Len(HookPrefix) + 1, Len(options_json) - 2)

\* the value of the expression get_enum_options('<key>') against a registry m
EvalHook(m, options_json) == EnumOptionsValue(m, HookKey(options_json))

-----------------------------------------------------------------------------
(* SpecStartup: one page of the preview tool importing the example crate's *)
(* four artifacts.  Every artifact is an ES module running the template's  *)
(* statements in order: it suspends at `await init()` and, once resumed,   *)
(* runs the rest without interruption, JavaScript being single-threaded.   *)
(* All modules share the one wasm instance and with it both registries.    *)
(* loader.enums is the list of enums the crate's init_enums registers,     *)
(* loader.log the statements each module has executed, loader.options the  *)
(* value each Select entry's hook produced when argTypes was evaluated.    *)

\* the statements of the artifact that touch the wasm module, in the order
\* of the template
StartupSequence_ExportFirst ==
    << "await init()", "export default", "init_enums()", "register_all_stories()" >>

StartupSequence ==
    << "await init()", "init_enums()", "register_all_stories()", "export default" >>

\* register_stories!(Button, Card, Input, Alert)
ExampleStories == << "Button", "Card", "Input", "Alert" >>

\* what init_enums registers: AlertType alone in the example crate, the
\* listed enums when register_enums! generates it
EnumLists == { << "AlertType" >>, RegisteredEnums }

\* the entries of T's artifact carrying an option hook: field name -> the
\* call expression written after `options: `
ArtifactHooks(T) ==
    LET js == [ i \in 1..Len(BuildDecls[T]) |-> ArgTypeForJs(BuildDecls[T][i]) ]
        hooked == { i \in 1..Len(js) : js[i].options_json # "" }
    IN  [ n \in { js[i].field_name : i \in hooked } |->
            (CHOOSE e \in { js[i] : i \in hooked } : e.field_name = n).options_json ]

\* the next statement of module a, and whether a may run now: no other
\* module is between its resumption and its last statement
Executed(a) == Len(loader.log[a])
NextStatement(a) == StartupSequence[Executed(a) + 1]
MayRun(a) ==
    /\ loader # NoLoad
    /\ Executed(a) < Len(StartupSequence)
    /\ \A b \in DOMAIN loader.log \ { a } : Executed(b) \in { 0, 1, Len(StartupSequence) }

Logged(a, stmt) == [ loader EXCEPT !.log[a] = Append(@, stmt) ]

\* import of the module up to the suspension at `await init()`
AwaitInit(a) ==
    /\ MayRun(a) /\ NextStatement(a) = "await init()"
    /\ loader' = Logged(a, "await init()")
    /\ UNCHANGED <<derive_vars, runtime_vars, attr_vars, lorem_vars, build, rendering>>

\* init_enums();
StartupInitEnums(a) ==
    /\ MayRun(a) /\ NextStatement(a) = "init_enums()"
    /\ ENUM_REGISTRY' = InsertAll(ENUM_REGISTRY, loader.enums)
    /\ loader' = Logged(a, "init_enums()")
    /\ UNCHANGED <<derive_vars, STORY_REGISTRY, story_lock, enum_calls, ret>>
    /\ UNCHANGED <<attr_vars, lorem_vars, build, rendering>>

\* register_all_stories();
StartupRegisterAllStories(a) ==
    /\ MayRun(a) /\ NextStatement(a) = "register_all_stories()"
    /\ ~LockFails
    /\ STORY_REGISTRY' = STORY_REGISTRY \o ExampleStories
    /\ loader' = Logged(a, "register_all_stories()")
    /\ UNCHANGED <<derive_vars, story_lock, ENUM_REGISTRY, enum_calls, ret>>
    /\ UNCHANGED <<attr_vars, lorem_vars, build, rendering>>

\* export default { title, argTypes }: evaluating the object literal calls
\* get_enum_options for every entry that has an options member
ExportDefault(a) ==
    /\ MayRun(a) /\ NextStatement(a) = "export default"
    /\ loader' = [ Logged(a, "export default") EXCEPT
                     !.options = Put(@, a, [ n \in DOMAIN ArtifactHooks(a) |->
                                               EvalHook(ENUM_REGISTRY, ArtifactHooks(a)[n]) ]) ]
    /\ UNCHANGED <<derive_vars, runtime_vars, attr_vars, lorem_vars, build, rendering>>

NextStartup ==
    \E a \in DOMAIN BuildDecls :
        \/ AwaitInit(a)
        \/ StartupInitEnums(a)
        \/ StartupRegisterAllStories(a)
        \/ ExportDefault(a)

InitStartup ==
    /\ loader \in { [ enums |-> l, log |-> [ a \in DOMAIN BuildDecls |-> <<>> ], options |-> <<>> ] :
                      l \in EnumLists }
    /\ field = None
    /\ derived = None
    /\ STORY_REGISTRY = <<>>
    /\ story_lock = "free"
    /\ ENUM_REGISTRY = <<>>
    /\ enum_calls = <<>>
    /\ ret = Call("init", "", EmptyObject, "Ok", None, <<>>)
    /\ attrs = <<>>
    /\ extracted = None
    /\ lorem_arg = 0
    /\ lorem_out = <<>>
    /\ build = NoBuild
    /\ rendering = None

SpecStartup == InitStartup /\ [][NextStartup]_vars

-----------------------------------------------------------------------------
(* SpecRender: render_story followed through the render function.  The     *)
(* closure stored by register_story deserializes the payload and then runs *)
(* the component's to_story(), which is the component author's code and    *)
(* may call back into the runtime.  wasm runs one thread, so a call made   *)
(* while a render is under way comes from that render function.            *)
(* `rendering` is the render under way or the last one: its name, the      *)
(* registry entry dispatched to, the runtime calls to_story() has made,    *)
(* and how far it got.                                                     *)

\* render_story that takes the entry out of the registry and drops the guard
\* before calling render_fn
RenderLock_Released == "free"

\* STORY_REGISTRY's lock while render_fn runs: the guard is a temporary of
\* the statement `let dom = STORY_REGISTRY.lock().unwrap() ... ?;` and lives
\* to its end
RenderLock == "held"

\* Mutex::lock() by the thread that holds the Mutex does not return: it
\* panics (wasm32 without threads) or blocks for ever
LockReentry == { "panic", "deadlock" }

\* runtime calls to_story() may make on STORY_REGISTRY
NestedOps == { "render_story", "get_stories", "register_story" }

RenderPayloads == { EmptyObject, [ label |-> <<"number", "5">> ] }

InRenderFn == rendering # None /\ rendering.state = "render_fn"
Hung == rendering # None /\ rendering.state = "deadlocked"

\* render_story(name, args) up to the call of to_story() inside render_fn
render_story_enter(name, payload) ==
    /\ ~InRenderFn /\ ~Hung
    /\ IF LockFails
       THEN /\ ret' = Call("render_story", name, payload, "panic", None, <<>>)
            /\ UNCHANGED <<story_lock, rendering>>
       ELSE LET found == FindStory(STORY_REGISTRY, name)
            IN  IF found = None
                THEN /\ ret' = Call("render_story", name, payload, "Err", None, NotFoundMessage(name))
                     /\ UNCHANGED <<story_lock, rendering>>
                ELSE IF RenderResults[Unwrap(found)][payload].panicked
                     THEN /\ ret' = Call("render_story", name, payload, "panic", found, <<>>)
                          /\ story_lock' \in LockAfterPanic
                          /\ UNCHANGED rendering
                     ELSE /\ rendering' = [ name |-> name, payload |-> payload,
                                            entry |-> FirstMatch(STORY_REGISTRY, name),
                                            nested |-> <<>>, state |-> "render_fn" ]
                          /\ story_lock' = RenderLock
                          /\ UNCHANGED ret
    /\ UNCHANGED <<derive_vars, STORY_REGISTRY, ENUM_REGISTRY, enum_calls>>
    /\ UNCHANGED <<attr_vars, lorem_vars, build, loader>>

\* to_story() calls render_story, get_stories or register_story::<T>(): the
\* call starts with STORY_REGISTRY.lock().unwrap()
to_story_calls(op, T) ==
    /\ InRenderFn
    /\ Len(rendering.nested) < MaxNested
    /\ IF LockFails
       THEN \E o \in LockReentry :
               /\ rendering' = [ rendering EXCEPT !.nested = Append(@, op),
                                   !.state = IF o = "panic" THEN "panicked" ELSE "deadlocked" ]
               /\ story_lock' \in (IF o = "panic" THEN LockAfterPanic ELSE { story_lock })
               /\ ret' = Call("render_story", rendering.name, rendering.payload, o,
                              Some(STORY_REGISTRY[rendering.entry]), <<>>)
               /\ UNCHANGED STORY_REGISTRY
       ELSE /\ rendering' = [ rendering EXCEPT !.nested = Append(@, op) ]
            /\ IF op = "register_story"
               THEN /\ Len(STORY_REGISTRY) < MaxStories
                    /\ STORY_REGISTRY' = Append(STORY_REGISTRY, T)
               ELSE UNCHANGED STORY_REGISTRY
            /\ UNCHANGED <<story_lock, ret>>
    /\ UNCHANGED <<derive_vars, ENUM_REGISTRY, enum_calls>>
    /\ UNCHANGED <<attr_vars, lorem_vars, build, loader>>

\* to_story() calls E::__register_enum_options(): ENUM_REGISTRY has a lock of
\* its own, which render_story does not hold
to_story_registers_enum(E) ==
    /\ InRenderFn
    /\ Len(rendering.nested) < MaxNested
    /\ ENUM_REGISTRY' = __register_enum_options(ENUM_REGISTRY, E)
    /\ rendering' = [ rendering EXCEPT !.nested = Append(@, "register_enum_options") ]
    /\ UNCHANGED <<derive_vars, STORY_REGISTRY, story_lock, enum_calls, ret>>
    /\ UNCHANGED <<attr_vars, lorem_vars, build, loader>>

\* to_story() returns and render_story with it: the guard is dropped
render_story_return ==
    /\ InRenderFn
    /\ rendering' = [ rendering EXCEPT !.state = "returned" ]
    /\ story_lock' = "free"
    /\ ret' = Call("render_story", rendering.name, rendering.payload, "Ok",
                   Some(STORY_REGISTRY[rendering.entry]),
                   [ args |-> RenderResults[STORY_REGISTRY[rendering.entry]][rendering.payload].args,
                     node |-> "div", entry |-> rendering.entry ])
    /\ UNCHANGED <<derive_vars, STORY_REGISTRY, ENUM_REGISTRY, enum_calls>>
    /\ UNCHANGED <<attr_vars, lorem_vars, build, loader>>

NextRender ==
    \/ \E T \in DOMAIN StoryDecls : ~InRenderFn /\ ~Hung /\ register_story(T)
    \/ \E name \in StoryNames, payload \in RenderPayloads : render_story_enter(name, payload)
    \/ \E op \in NestedOps, T \in DOMAIN StoryDecls : to_story_calls(op, T)
    \/ \E E \in DOMAIN EnumDecls : to_story_registers_enum(E)
    \/ render_story_return

InitRender ==
    /\ rendering = None
    /\ field = None
    /\ derived = None
    /\ STORY_REGISTRY = <<>>
    /\ story_lock = "free"
    /\ ENUM_REGISTRY = <<>>
    /\ enum_calls = <<>>
    /\ ret = Call("init", "", EmptyObject, "Ok", None, <<>>)
    /\ attrs = <<>>
    /\ extracted = None
    /\ lorem_arg = 0
    /\ lorem_out = <<>>
    /\ build = NoBuild
    /\ loader = NoLoad

SpecRender == InitRender /\ [][NextRender]_vars

-----------------------------------------------------------------------------
(* The artifact's Default.args as the preview tool reads it *)

\* the JavaScript value of one emitted default literal; None is undefined
JsEval(lit) ==
    CASE lit = "undefined" -> None
      [] lit = "null" -> Some(<<"null">>)
      [] lit \in { "true", "false" } -> Some(<<"boolean", lit>>)
      [] Len(lit) >= 2 /\ SubSeq(lit, 1, 1) = "'" /\ SubSeq(lit, Len(lit), Len(lit)) = "'" ->
            Some(<<"string", SubSeq(lit, 2, Len(lit) - 1)>>)
      [] OTHER -> Some(<<"number", lit>>)

\* the payload with every omitted field set to its resolved schema default
FillDefaults(T, payload) ==
    LET dflt(n) == JsEval(DefaultValStr(FieldOf(T, n)))
        added == { n \in FieldNames(T) \ DOMAIN payload : IsSome(dflt(n)) }
    IN  [ k \in DOMAIN payload \cup added |->
            IF k \in DOMAIN payload THEN payload[k] ELSE Unwrap(dflt(k)) ]

Rendered == ret.op = "render_story" /\ ret.outcome = "Ok"
Derived == Unwrap(derived)

-----------------------------------------------------------------------------
(* Claims *)

\* C1: a successful render of a payload builds the same argument object as
\* the render of that payload with every omitted field explicitly set to its
\* resolved schema default.  Fails: a missing key takes Default::default()
\* of the Rust type, not the schema default.
C1_SubsetEqualsDefaults ==
    Rendered =>
        LET T == Unwrap(ret.invoked)
            full == RenderFn(T, FillDefaults(T, ret.payload))
        IN  ~full.panicked /\ ret.value.args = full.args

\* C2: render_story of a name with no registration returns the NotFound
\* failure carrying the name and invokes no render function.  Fails once the
\* STORY_REGISTRY lock was left held or poisoned by a panicking render (C4).
C2_NotFound ==
    (ret.op = "render_story" /\ FindStory(STORY_REGISTRY, ret.name) = None) =>
        /\ ret.outcome = "Err"
        /\ ret.value = NotFoundMessage(ret.name)
        /\ ret.invoked = None

\* C3: get_enum_options(E) returns null while no register call for E has
\* happened, and afterwards exactly the list of the (latest) registration
\* of E, in its order; it never fails.
C3_EnumOptions ==
    ret.op = "get_enum_options" =>
        /\ ret.outcome = "Ok"
        /\ ret.name \notin DOMAIN enum_calls => ret.value = <<"null">>
        /\ ret.name \in DOMAIN enum_calls => ret.value = <<"array", enum_calls[ret.name]>>

C3_Witness ==
    /\ ret.op = "get_enum_options"
    /\ ret.name = "AlertType"
    /\ ret.value = <<"array", <<"Info", "Success", "Warning", "Error">>>>

\* C4: a render that fails on a wrong-typed payload value fails alone: the
\* only call that ever panics is a render_story whose own render function
\* was invoked and rejected its payload.  Fails: the panic leaves the
\* STORY_REGISTRY lock held or poisoned and every later call on it panics.
C4_FailureScopedToCall ==
    ret.outcome = "panic" => (ret.op = "render_story" /\ IsSome(ret.invoked))

\* C5: each component name appears at most once in STORY_REGISTRY.
\* Fails: register_story pushes unconditionally.
C5_UniqueNames ==
    \A i, j \in 1..Len(STORY_REGISTRY) : i # j => STORY_REGISTRY[i] # STORY_REGISTRY[j]

\* the enum type name a field's option lookup is keyed by
OwningEnum(T, n) == RemoveSpaces(FieldOf(T, n).ty)

\* C6 as stated: options are present only for Select, and a Select ArgType's
\* options are null/empty before the owning enum is in ENUM_REGISTRY and
\* non-null after.  Fails: args() fills them from StorySelect::options().
C6_OptionsFollowRegistration ==
    ret.op = "args" =>
        \A i \in 1..Len(ret.value) :
            LET a == ret.value[i]
            IN  /\ IsSome(a.options) => a.control = "Select"
                /\ a.control = "Select" =>
                     IF OwningEnum(ret.name, a.name) \in DOMAIN ENUM_REGISTRY
                     THEN IsSome(a.options)
                     ELSE a.options = None \/ a.options = Some(<<>>)

\* C6 amended: options are present only for Select, and a Select ArgType's
\* options are non-null, the owning enum's variants in declaration order, in
\* every state, whether or not the enum is in ENUM_REGISTRY.
C6_OptionsStatic ==
    ret.op = "args" =>
        \A i \in 1..Len(ret.value) :
            LET a == ret.value[i]
            IN  /\ IsSome(a.options) => a.control = "Select"
                /\ a.control = "Select" =>
                     a.options = Some(EnumDecls[OwningEnum(ret.name, a.name)].variants)

C6_Witness ==
    /\ ret.op = "args"
    /\ ret.name = "Widget"
    /\ "ButtonSize" \notin DOMAIN ENUM_REGISTRY
    /\ \E i \in 1..Len(ret.value) : ret.value[i].control = "Select" /\ IsSome(ret.value[i].options)

\* C7: Widget (count: from i32, default "0"; color: Color, default
\* "'#007bff'"; size: Select over the 3-variant ButtonSize), registered and
\* rendered with {}, gets {count: 0, color: "#007bff", size: none or the
\* first variant} and returns a node.  Fails: color is "" (C1), and size is
\* ButtonSize::default().
C7_EndToEnd ==
    (ret.op = "render_story" /\ ret.name = "Widget" /\ ret.payload = EmptyObject
        /\ IsSome(FindStory(STORY_REGISTRY, "Widget"))) =>
        /\ ret.outcome = "Ok"
        /\ ret.value.node # ""
        /\ ret.value.args["count"][1] = "num" /\ ret.value.args["count"][3] = "0"
        /\ ret.value.args["color"] = <<"String", "#007bff">>
        /\ ret.value.args["size"] \in { <<"None">>, <<"enum", "ButtonSize", EnumDecls["ButtonSize"].variants[1]>> }

\* C8: the default written to the artifact: the explicit literal; else the
\* quoted lorem text of the given word count; else null for a Select field,
\* '' for a text-like type, false for a boolean type, 0 for a numeric type,
\* undefined otherwise.
C8_DefaultResolution ==
    IsSome(derived) =>
        LET f == field
            val == Derived.js.default_val
            zero == ~IsSome(f.default) /\ ~IsSome(f.lorem)
            select == f.control = Some("select")
            text == Contains(f.ty, "String")
            bool == Contains(f.ty, "bool")
            num == ContainsNumeric(f.ty)
        IN  /\ IsSome(f.default) => val = Unwrap(f.default)
            /\ (~IsSome(f.default) /\ IsSome(f.lorem)) =>
                   val = "'" \o generate_lorem_ipsum(Unwrap(f.lorem)) \o "'"
            /\ (zero /\ select) => (val = "null" /\ val # "''")
            /\ (zero /\ ~select /\ text) => val = "''"
            /\ (zero /\ ~select /\ ~text /\ bool) => val = "false"
            /\ (zero /\ ~select /\ ~text /\ ~bool /\ num) => val = "0"
            /\ (zero /\ ~select /\ ~text /\ ~bool /\ ~num) => val = "undefined"

C8_Witness ==
    /\ IsSome(derived)
    /\ field.control = Some("select") /\ field.ty = "String"
    /\ field.default = None /\ field.lorem = None
    /\ Derived.js.default_val = "null"

\* C9: with no control and no from override the runtime control kind is
\* Boolean when the type name contains bool, Number when it contains a
\* numeric token and not bool, Text otherwise.
C9_AutoDetect ==
    (IsSome(derived) /\ field.control = None /\ field.from = None) =>
        Derived.arg_type.control =
            IF Contains(field.ty, "bool") THEN "Boolean"
            ELSE IF \E t \in { "i32", "f32", "u32", "f64", "usize" } : Contains(field.ty, t) THEN "Number"
            ELSE "Text"

C9_Witness ==
    /\ IsSome(derived) /\ field.control = None /\ field.from = None
    /\ field.ty = "(bool , i32)"
    /\ Derived.arg_type.control = "Boolean"

\* C10: an explicit control override fixes the control kind by the table
\* color -> Color, select -> Select, anything else -> Text, whatever the
\* declared type and the from override are, in the runtime ArgType and in
\* the artifact alike.
C10_ExplicitOverride ==
    (IsSome(derived) /\ IsSome(field.control)) =>
        LET c == Unwrap(field.control)
            kind == IF c = "color" THEN "Color" ELSE IF c = "select" THEN "Select" ELSE "Text"
        IN  /\ Derived.arg_type.control = kind
            /\ Derived.js.control = ControlJson(kind)

C10_Witness ==
    /\ IsSome(derived)
    /\ field.control = Some("boolean") /\ field.ty = "bool" /\ field.from = Some("i32")
    /\ Derived.arg_type.control = "Text"

\* C11: with a `from` override and no explicit control, the runtime control is
\* detected on the override's type name: Boolean when it names bool,
\* otherwise Number when it names a numeric type, otherwise Text; the
\* declared type plays no part.
C11_FromOverride ==
    (IsSome(derived) /\ field.control = None /\ IsSome(field.from)) =>
        Derived.arg_type.control =
            CASE Unwrap(field.from) = "bool" -> "Boolean"
              [] Unwrap(field.from) = "i32" -> "Number"
              [] Unwrap(field.from) = "String" -> "Text"

\* a custom-typed field overridden to i32 has been derived and is Number,
\* although its declared type alone would give Text
C11_Witness ==
    /\ IsSome(derived)
    /\ field.ty = "ButtonSize" /\ field.from = Some("i32") /\ field.control = None
    /\ Derived.arg_type.control = "Number"

\* the declared types of FieldTypes written in the Option wrapper form
OptionWrapperForms == { "Option < bool >", "Option < String >" }

\* C12: the required flag of the runtime ArgType is false exactly when the
\* declared type is written in the Option wrapper form, whatever the
\* control, default, from and lorem annotations are, and the artifact entry
\* carries the category 'required' exactly when the flag is true.
C12_RequiredFlag ==
    IsSome(derived) =>
        /\ Derived.arg_type.required = (field.ty \notin OptionWrapperForms)
        /\ Contains(Derived.js_entry, "table: { category: 'required' }")
               = Derived.arg_type.required

\* a field whose type only mentions Option inside another type has been
\* derived with a `from` override and an explicit control: it is required
\* and marked so in the artifact
C12_Witness ==
    /\ IsSome(derived)
    /\ field.ty = "Vec < Option < bool > >"
    /\ IsSome(field.from) /\ IsSome(field.control)
    /\ Derived.arg_type.required
    /\ Contains(Derived.js_entry, "category: 'required'")

\* the Select fields and the nullable fields of a component
OptionalFields(T) ==
    { n \in FieldNames(T) : should_be_optional(FieldOf(T, n)) \/ is_option(FieldOf(T, n)) }

\* what a Select or nullable field holds when the payload gave no value:
\* the enum's Default variant, or None
AbsentValue(f) ==
    IF should_be_optional(f) THEN <<"enum", f.ty, EnumDecls[f.ty].default>> ELSE <<"None">>

Extracted == Unwrap(extracted)

\* the metas of the #[story(..)] attributes, in source order
RECURSIVE StoryMetas(_)
StoryMetas(as) ==
    IF as = <<>> THEN <<>>
    ELSE (IF Head(as).path = "story" THEN Head(as).metas ELSE <<>>) \o StoryMetas(Tail(as))

\* a meta whose value the annotation grammar accepts for its key
WellFormed(m) ==
    CASE m.key \in { "control", "default" } -> IsLitStr(m)
      [] m.key = "from" -> IsLitStr(m) /\ m.val[2] \in { "i32" }
      [] m.key = "lorem" -> m.val = None \/ (IsLitStr(m) /\ m.val[2] \in { "12" })
      [] OTHER -> FALSE

\* a `from` key whose value is a string literal that is not a type
BadFrom(m) == m.key = "from" /\ IsLitStr(m) /\ m.val[2] = "not a type"

Occurrences(K) == SelectSeq(StoryMetas(attrs), LAMBDA m : m.key = K)

\* C14 as stated: extraction never panics, and a recognized key none of
\* whose values can be parsed is absent from the extracted FieldSpec.
C14_MalformedDegrades ==
    IsSome(extracted) =>
        /\ ~Extracted.panicked
        /\ \A K \in RecognizedKeys :
              (\A i \in 1..Len(Occurrences(K)) : ~WellFormed(Occurrences(K)[i]))
                  => Extracted[K] = None

\* C14 amended: a `from` value that is a string literal but not a valid type
\* panics, and nothing else does; when extraction completes, a recognized
\* key none of whose values can be parsed is absent from the FieldSpec.
C14_MalformedDegradesExceptFrom ==
    IsSome(extracted) =>
        /\ Extracted.panicked =
              (Extracted.seen # <<>> /\ BadFrom(Extracted.seen[Len(Extracted.seen)]))
        /\ ~Extracted.panicked =>
              \A K \in RecognizedKeys :
                  (\A i \in 1..Len(Occurrences(K)) : ~WellFormed(Occurrences(K)[i]))
                      => Extracted[K] = None

\* extraction has been run on from = "not a type" and has panicked
C14_Witness ==
    /\ IsSome(extracted) /\ Extracted.panicked
    /\ attrs = <<Attr("story", <<Meta("from", <<"str", "not a type">>)>>)>>

\* the override a well-formed meta stands for
ValueOf(m) ==
    IF m.key = "lorem"
    THEN (IF m.val = None THEN Some(8) ELSE Some(12))
    ELSE Some(m.val[2])

\* C15: when a recognized key occurs more than once among the field's
\* annotation clauses, the extracted FieldSpec holds the value of its last
\* occurrence.  Fails: parsing of a clause stops at the first meta whose
\* value the closure leaves unread, so a later occurrence is never seen.
C15_LastWins ==
    (IsSome(extracted) /\ ~Extracted.panicked) =>
        \A K \in RecognizedKeys :
            LET occ == Occurrences(K)
            IN  (Len(occ) >= 2 /\ WellFormed(occ[Len(occ)]))
                    => Extracted[K] = ValueOf(occ[Len(occ)])

\* the attributes with every meta of an unknown key taken out
RemoveUnknown(as) ==
    [ i \in 1..Len(as) |->
        Attr(as[i].path, SelectSeq(as[i].metas, LAMBDA m : m.key \in RecognizedKeys)) ]

Overrides(r) ==
    [ control |-> r.control, default |-> r.default, from |-> r.from, lorem |-> r.lorem,
      panicked |-> r.panicked ]

\* C16: an unknown key is ignored: the extracted FieldSpec equals the one
\* extracted from the same clauses with the unknown keys removed.  Fails:
\* the value of an unknown key is left unread and stops the clause.
C16_UnknownIgnored ==
    IsSome(extracted) =>
        Overrides(Extracted) = Overrides(get_story_attrs(RemoveUnknown(attrs)))

\* the metas the closure was called on that set the lorem count
LoremSetters ==
    SelectSeq(Extracted.seen,
              LAMBDA m : m.key = "lorem" /\ (m.val = None \/ m.val = <<"str", "12">>))

ExpectedWord(i) == LOREM_WORDS[(i % Len(LOREM_WORDS)) + 1]

\* the number of characters of the words lo..hi, each followed by one space
RECURSIVE SpanLen(_, _)
SpanLen(lo, hi) ==
    IF lo > hi THEN 0
    ELSE IF lo = hi THEN Len(ExpectedWord(lo)) + 1
    ELSE LET mid == (lo + hi) \div 2
         IN  SpanLen(lo, mid) + SpanLen(mid + 1, hi)

\* the position of the first character of the i-th word
WordStart(i) == 1 + SpanLen(0, i - 1)

\* text is exactly the first N expected words separated by single spaces
IsLoremText(text, N) ==
    IF N = 0 THEN text = ""
    ELSE /\ Len(text) = WordStart(N) - 2
         /\ \A i \in 0..(N - 1) :
               SubSeq(text, WordStart(i), WordStart(i) + Len(ExpectedWord(i)) - 1) = ExpectedWord(i)
         /\ \A i \in 1..(N - 1) : SubSeq(text, WordStart(i) - 1, WordStart(i) - 1) = " "

\* C18: generate_lorem_ipsum(N) is exactly N words joined by single spaces
\* (the empty string for N = 0), the i-th word being LOREM_WORDS[i mod L],
\* and every call with the same N returns the same text.
C18_LoremText ==
    \A k \in 1..Len(lorem_out) :
        /\ IsLoremText(lorem_out[k], lorem_arg)
        /\ lorem_out[k] = lorem_out[1]

\* two calls have returned for a count beyond the word list: the text
\* wraps around to the first word
C18_Witness ==
    /\ Len(lorem_out) = 2
    /\ lorem_arg = Len(LOREM_WORDS) + 1
    /\ SubSeq(lorem_out[1], Len(lorem_out[1]) - Len(LOREM_WORDS[1]), Len(lorem_out[1]))
          = " " \o LOREM_WORDS[1]

IoFailed(T) == build.io[T].mkdir = "Err" \/ build.io[T].write # "Ok"

\* C19: a failure to create the output directory or to write the artifact
\* is swallowed: the derive of that component still returns its runtime
\* schema and argument structure, the build is not halted, and every
\* component whose own I/O succeeded has its complete artifact on disk.
C19_IoFailureSwallowed ==
    build # NoBuild =>
        /\ ~build.halted
        /\ \A T \in DOMAIN build.io :
              /\ T \in DOMAIN build.expanded /\ build.expanded[T] = Expanded(T)
              /\ ~IoFailed(T) => (T \in DOMAIN build.files /\ build.files[T] = JsContent(T))

\* the directory could not be created for Button and the write failed; Card,
\* derived next, has its artifact on disk and Button has its expansion
C19_Witness ==
    /\ build # NoBuild
    /\ build.order = <<"Button", "Card">>
    /\ build.io["Button"] = [ mkdir |-> "Err", write |-> "Err" ]
    /\ "Button" \in DOMAIN build.expanded
    /\ "Button" \notin DOMAIN build.files
    /\ "Card" \in DOMAIN build.files /\ build.files["Card"] = JsContent("Card")

\* C20: a registration call always completes and records its entry,
\* whatever failed before it.  Fails: after a render has panicked inside the
\* render function the registry lock is held or poisoned, and
\* register_story panics in STORY_REGISTRY.lock().unwrap().
C20_RegistrationCompletes ==
    /\ ret.op = "register_story" =>
          /\ ret.outcome = "Ok"
          /\ STORY_REGISTRY # <<>> /\ STORY_REGISTRY[Len(STORY_REGISTRY)] = ret.name
    /\ ret.op = "register_all_stories" =>
          /\ ret.outcome = "Ok"
          /\ Len(STORY_REGISTRY) >= Len(RegisteredTypes)
          /\ SubSeq(STORY_REGISTRY, Len(STORY_REGISTRY) - Len(RegisteredTypes) + 1,
                    Len(STORY_REGISTRY)) = RegisteredTypes
    /\ ret.op = "register_enum_options" =>
          /\ ret.outcome = "Ok"
          /\ EnumGet(ENUM_REGISTRY, ret.name) = Some(ret.value)
    /\ ret.op = "init_enums" =>
          /\ ret.outcome = "Ok"
          /\ \A i \in 1..Len(RegisteredEnums) : RegisteredEnums[i] \in DOMAIN ENUM_REGISTRY

\* C22: the control kind written to the artifact's schema table equals the
\* control kind of the field's runtime ArgType, also under a `from`
\* override.  Fails: control_str is detected on the declared type even when
\* a `from` override is given, while the runtime control is detected on the
\* override.
C22_ArtifactMatchesRuntime ==
    IsSome(derived) => Derived.js.control = ControlJson(Derived.arg_type.control)

\* the enum a declared field type denotes
DenotedEnum(ty) ==
    CASE ty = "ButtonSize" -> "ButtonSize"
      [] ty = "crate :: ButtonSize" -> "ButtonSize"

\* C23: the artifact entry embeds get_enum_options('<T>') exactly when the
\* control kind is Select, <T> being the declared type with its whitespace
\* removed, and <T> is the name the owning enum registers under, so after
\* that registration the hook returns the enum's variants.  Fails: the enum
\* registers under its identifier, the key is the whole declared type.
C23_HookKey ==
    IsSome(derived) =>
        /\ Contains(Derived.js_entry, HookPrefix) = (Derived.arg_type.control = "Select")
        /\ (Derived.arg_type.control = "Select"
              /\ field.ty \in { "ButtonSize", "crate :: ButtonSize" }) =>
              LET E == DenotedEnum(field.ty)
              IN  /\ Derived.js.options_json = HookPrefix \o RemoveSpaces(field.ty) \o "')"
                  /\ EvalHook(__register_enum_options(<<>>, E), Derived.js.options_json)
                        = <<"array", EnumDecls[E].variants>>

\* C24: render_story, get_stories and get_enum_options leave both registries
\* as they are; STORY_REGISTRY changes only in a story registration and
\* ENUM_REGISTRY only in an enum registration, and a registration keeps every
\* entry that was there, in place.
C24_RegistriesAppendOnly ==
    [][ /\ ret'.op \in { "render_story", "get_stories", "get_enum_options" } =>
              (STORY_REGISTRY' = STORY_REGISTRY /\ ENUM_REGISTRY' = ENUM_REGISTRY)
        /\ STORY_REGISTRY' # STORY_REGISTRY =>
              ret'.op \in { "register_story", "register_all_stories" }
        /\ ENUM_REGISTRY' # ENUM_REGISTRY =>
              ret'.op \in { "register_enum_options", "init_enums" }
        /\ Len(STORY_REGISTRY') >= Len(STORY_REGISTRY)
        /\ SubSeq(STORY_REGISTRY', 1, Len(STORY_REGISTRY)) = STORY_REGISTRY
        /\ DOMAIN ENUM_REGISTRY \subseteq DOMAIN ENUM_REGISTRY' ]_vars

\* a render has failed with NotFound while both registries held entries
C24_Witness ==
    /\ ret.op = "render_story" /\ ret.outcome = "Err"
    /\ STORY_REGISTRY # <<>> /\ ENUM_REGISTRY # <<>>

\* C25: a completed get_stories returns one entry per registry entry, in
\* registry order: the entry's name, one argTypes entry per ArgType of the
\* story with the serialized control kind and the table category "required"
\* or "optional", and default args for exactly the arguments whose
\* default_value is present.
C25_GetStoriesContents ==
    (ret.op = "get_stories" /\ ret.outcome = "Ok") =>
        /\ Len(ret.value) = Len(STORY_REGISTRY)
        /\ \A i \in 1..Len(STORY_REGISTRY) :
              LET def == ret.value[i]
                  arg_types == StoryMetaArgs(STORY_REGISTRY[i])
              IN  /\ def.name = STORY_REGISTRY[i]
                  /\ DOMAIN def.argTypes = { arg_types[j].name : j \in 1..Len(arg_types) }
                  /\ Cardinality(DOMAIN def.argTypes) = Len(arg_types)
                  /\ \A j \in 1..Len(arg_types) :
                        /\ def.argTypes[arg_types[j].name].control = ControlJson(arg_types[j].control)
                        /\ def.argTypes[arg_types[j].name].table =
                              (IF arg_types[j].required THEN "required" ELSE "optional")
                  /\ DOMAIN def.args =
                        { arg_types[j].name : j \in { k \in 1..Len(arg_types) :
                                                        IsSome(arg_types[k].default_value) } }
                  /\ \A j \in 1..Len(arg_types) :
                        IsSome(arg_types[j].default_value) =>
                            def.args[arg_types[j].name] = Unwrap(arg_types[j].default_value)

\* get_stories has listed a registry holding both declared stories, each of
\* which has an argument without a default
C25_Witness ==
    /\ ret.op = "get_stories" /\ ret.outcome = "Ok"
    /\ { STORY_REGISTRY[i] : i \in 1..Len(STORY_REGISTRY) } = { "Button", "Widget" }
    /\ \E i \in 1..Len(ret.value) : DOMAIN ret.value[i].args # DOMAIN ret.value[i].argTypes

\* C26: a completed register_story appends its entry whether or not the name
\* is already registered, so the registry lists the completed registrations
\* in call order; get_stories lists every entry, duplicates included; and
\* render_story dispatches to the earliest entry carrying the name.
C26_DuplicatesAppend ==
    [][ /\ (ret'.op = "register_story" /\ ret'.outcome = "Ok") =>
              STORY_REGISTRY' = Append(STORY_REGISTRY, ret'.name)
        /\ (ret'.op = "register_all_stories" /\ ret'.outcome = "Ok") =>
              STORY_REGISTRY' = STORY_REGISTRY \o RegisteredTypes
        /\ (ret'.op = "get_stories" /\ ret'.outcome = "Ok") =>
              [ i \in 1..Len(ret'.value) |-> ret'.value[i].name ] = STORY_REGISTRY'
        /\ (ret'.op = "render_story" /\ ret'.outcome = "Ok") =>
              /\ STORY_REGISTRY'[ret'.value.entry] = ret'.name
              /\ \A j \in 1..Len(STORY_REGISTRY') :
                    STORY_REGISTRY'[j] = ret'.name => ret'.value.entry <= j ]_vars

\* a name registered twice, with a further registration in between, has been
\* rendered
C26_Witness ==
    /\ ret.op = "render_story" /\ ret.outcome = "Ok"
    /\ \E i, j \in 1..Len(STORY_REGISTRY) :
          /\ i + 1 < j
          /\ STORY_REGISTRY[i] = ret.name /\ STORY_REGISTRY[j] = ret.name

\* C27: register_enum_options under a name that already has a list replaces
\* that list: the registry holds the new list under the name and every other
\* name as before, a later get_enum_options of the name returns the list
\* registered last, and registering the list a name already has changes
\* nothing.
C27_EnumReplace ==
    [][ /\ ret'.op = "register_enum_options" =>
              /\ DOMAIN ENUM_REGISTRY' = DOMAIN ENUM_REGISTRY \cup { ret'.name }
              /\ ENUM_REGISTRY'[ret'.name] = ret'.value
              /\ \A k \in DOMAIN ENUM_REGISTRY : k # ret'.name => ENUM_REGISTRY'[k] = ENUM_REGISTRY[k]
              /\ ret'.replaced = Some(ret'.value) => ENUM_REGISTRY' = ENUM_REGISTRY
        /\ (ret'.op = "get_enum_options" /\ ret'.name \in DOMAIN enum_calls) =>
              ret'.value = <<"array", enum_calls[ret'.name]>> ]_vars

\* a registration has replaced a different list stored under its name
C27_Witness ==
    /\ ret.op = "register_enum_options"
    /\ IsSome(ret.replaced) /\ ret.replaced # Some(ret.value)
    /\ ENUM_REGISTRY[ret.name] = ret.value

\* C21: in every artifact's startup, init_enums() has run before
\* register_all_stories() and before argTypes is evaluated, so when a Select
\* entry's hook is evaluated every enum init_enums registers is already in
\* ENUM_REGISTRY: the hook of such an enum never sees the state before its
\* registration and yields the variant list.
StatementAt(a, stmt) == CHOOSE i \in 1..Len(loader.log[a]) : loader.log[a][i] = stmt
HasRun(a, stmt) == \E i \in 1..Len(loader.log[a]) : loader.log[a][i] = stmt

C21_EnumsBeforeQueries ==
    loader # NoLoad =>
        \A a \in DOMAIN loader.log :
            /\ \A later \in { "register_all_stories()", "export default" } :
                  HasRun(a, later) =>
                      /\ HasRun(a, "init_enums()")
                      /\ StatementAt(a, "init_enums()") < StatementAt(a, later)
                      /\ \A i \in 1..Len(loader.enums) : loader.enums[i] \in DOMAIN ENUM_REGISTRY
            /\ a \in DOMAIN loader.options =>
                  \A n \in DOMAIN loader.options[a] :
                      \A i \in 1..Len(loader.enums) :
                          HookKey(ArtifactHooks(a)[n]) = loader.enums[i] =>
                              loader.options[a][n] = <<"array", EnumDecls[loader.enums[i]].variants>>

\* Alert's artifact has evaluated the hook of alert_type as the first module
\* to finish, another module still suspended at await init()
C21_Witness ==
    /\ loader # NoLoad
    /\ "Alert" \in DOMAIN loader.options
    /\ loader.options["Alert"]["alert_type"] = <<"array", <<"Info", "Success", "Warning", "Error">>>>
    /\ Len(STORY_REGISTRY) = Len(ExampleStories)
    /\ \E b \in DOMAIN loader.log : loader.log[b] = << "await init()" >>

\* C28: while the render function of a render_story call runs, the lock of
\* STORY_REGISTRY is held and the registry does not change; and a render
\* function that has called render_story, get_stories or register_story has
\* not returned: the render ended in a panic or hangs.
StoryCalls(nested) == { i \in 1..Len(nested) : nested[i] \in NestedOps }

C28_LockHeldAcrossRender ==
    [][ /\ InRenderFn =>
              /\ story_lock = "held"
              /\ STORY_REGISTRY' = STORY_REGISTRY
        /\ (rendering' # None /\ StoryCalls(rendering'.nested) # {}) =>
              /\ rendering'.state \in { "panicked", "deadlocked" }
              /\ rendering' # rendering =>
                    (ret'.op = "render_story" /\ ret'.outcome \in LockReentry) ]_vars

\* a render function has registered an enum and then called register_story,
\* which ended the render without the registry gaining an entry
C28_Witness ==
    /\ rendering # None
    /\ rendering.nested = << "register_enum_options", "register_story" >>
    /\ rendering.state \in { "panicked", "deadlocked" }
    /\ Len(STORY_REGISTRY) = 1
    /\ ENUM_REGISTRY # <<>>

====
